---- MODULE Spec2Model ----
(***************************************************************************)
(* Model of pyphysim's interference-alignment core (src/ia/ia.py):         *)
(* MultiUserChannelMatrix and AlternatingMinIASolver, and of its           *)
(* simulation framework (src/util/simulations.py): Result,                 *)
(* SimulationResults, SimulationParameters and SimulationRunner.           *)
(*                                                                         *)
(* Conventions.                                                            *)
(*  - A numpy integer array is a sequence of integers; the scalar-or-array *)
(*    arguments of randomize/randomizeF are tagged records                 *)
(*    [isInt, v] (isinstance(x, int) is the tag).                          *)
(*  - A channel matrix is [shape |-> <<r, c>>, seed |-> s]: the matrix of  *)
(*    that shape whose entry (i, j) is the triple <<s, i, j>>, so that two *)
(*    entries of one matrix are never equal and a block returned from the  *)
(*    wrong place is told apart. A block read from it is kept entry by     *)
(*    entry: [shape |-> <<r, c>>, e |-> rows of entries].                  *)
(*  - The solver's matrices F[k], C[k], W[k] are kept by their shape only  *)
(*    (<<>> the scalar 0 of an object array, <<n>> 1-D, <<r, c>> 2-D):     *)
(*    every branch and every exception of the solver's code depends on     *)
(*    shapes and lengths, never on the numerical values, except the        *)
(*    singularity test of numpy.linalg.inv, which is a nondeterministic    *)
(*    input of updateW.                                                    *)
(*  - The module is Python 2 code (print statement, line 355); numpy of    *)
(*    that time accepts the integral floats produced by np.ones(K) * n as  *)
(*    sizes and indices, so they are modelled as the integers they equal.  *)
(*  - An operation is one action: it runs the whole method and leaves in   *)
(*    `last` which method ran, the exception it raised ("none" when it     *)
(*    returned) and what it returned.                                      *)
(*  - Python objects that are shared by reference live in heaps: a Result  *)
(*    is an index of `results`, a list of Results an index of `lists`, a   *)
(*    SimulationResults an index of `sims`; its dictionary maps a name to  *)
(*    the index of its list (0: no such key).                              *)
(***************************************************************************)
EXTENDS Integers, Sequences, FiniteSets, TLC

VARIABLES H, Nr, Nt, K,      \* MultiUserChannelMatrix fields
          F, W, C, Ns,       \* AlternatingMinIASolver fields (Ns is _Ns)
          last,              \* the last call: method, exception, result
          results,           \* the Result objects
          updates,           \* per Result, the update(value, total) calls made
          lists,             \* the list objects holding Results
          sims,              \* the SimulationResults objects
          runner,            \* the SimulationRunner
          params,            \* the SimulationParameters
          bar,               \* the ProgressbarText
          stdout             \* per progress call of the bar, what it wrote

simVars == <<results, updates, lists, sims, runner, params, bar, stdout>>

vars == <<H, Nr, Nt, K, F, W, C, Ns, last, results, updates, lists, sims,
          runner, params, bar, stdout>>

\* ------------------------------------------------------------ bounds
\* Largest number of users passed as K.
MaxK == 2
\* Largest per-user antenna count passed in Nr / Nt.
MaxAnt == 2

\* ------------------------------------------------- python / numpy helpers
RECURSIVE Sum(_)
Sum(s) == IF s = <<>> THEN 0 ELSE s[1] + Sum(Tail(s))

CumSum(s) == [i \in 1..Len(s) |-> Sum(SubSeq(s, 1, i))]

\* np.hstack([0, np.cumsum(a)])
ZeroPrefixed(a) == <<0>> \o CumSum(a)

\* np.ones(n) * v  (n >= 0)
Ones(n, v) == [i \in 1..n |-> v]

\* a[i] on a sequence: legal for -len <= i < len, negative i counts from the end
PyIndexOK(s, i) == -Len(s) <= i /\ i < Len(s)
PyIndex(s, i) == s[(IF i < 0 THEN i + Len(s) ELSE i) + 1]

\* The (1-based) positions selected by the slice a:b of a dimension of size n
SliceIdx(n, a, b) ==
    LET norm(x) == IF x < 0 THEN (IF x + n < 0 THEN 0 ELSE x + n)
                   ELSE (IF x > n THEN n ELSE x)
        lo == norm(a)
        hi == norm(b)
    IN  IF lo < hi THEN [i \in 1..(hi - lo) |-> lo + i] ELSE <<>>

\* The matrix of shape (r, c) drawn or built from `seed`, and its entry (i, j)
Mat(r, c, seed) == [shape |-> <<r, c>>, seed |-> seed]
Entry(M, i, j) == <<M.seed, i, j>>

\* np.array([])
EmptyArray == [shape |-> <<0>>, seed |-> "empty"]

\* M[ra:rb, ca:cb] of a 2-D array
Slice2D(M, ra, rb, ca, cb) ==
    LET ri == SliceIdx(M.shape[1], ra, rb)
        ci == SliceIdx(M.shape[2], ca, cb)
    IN  [shape |-> <<Len(ri), Len(ci)>>,
         e |-> [i \in 1..Len(ri) |-> [j \in 1..Len(ci) |-> Entry(M, ri[i], ci[j])]]]

\* misc.randn_c(rows, cols): a rows x cols complex Gaussian matrix; numpy's
\* random generator refuses negative dimensions with a ValueError.
randn_c_raises(rows, cols) == rows < 0 \/ cols < 0
randn_c(rows, cols, seed) == Mat(rows, cols, seed)

\* ------------------------------------------------------------ arguments
Scalar(n) == [isInt |-> TRUE, v |-> <<n>>]
Arr(s) == [isInt |-> FALSE, v |-> s]

\* Per-user antenna arrays: 1..MaxK users, 1..MaxAnt antennas each. The users
\* are listed by non-decreasing count: the code treats every user alike, so a
\* permutation of the users adds no case.
UserArrays ==
    UNION {{a \in [1..n -> 1..MaxAnt] : \A i \in 1..(n - 1) : a[i] <= a[i + 1]} :
           n \in 1..MaxK}
\* A scalar count; -1 is the invalid count numpy rejects
ScalarCounts == {-1} \cup (1..MaxAnt)
CountArgs == {Scalar(n) : n \in ScalarCounts} \cup {Arr(s) : s \in UserArrays}
KArgs == 0..MaxK
\* The K passed with injected per-user arrays (none of which is empty)
InjectKArgs == 1..MaxK
\* The seeds of the matrices a caller injects, and of those randn_c draws
InjectSeed == "injected"
RandomSeed == "drawn"
\* The matrix injected with arrays aNr, aNt: of the matching shape, or with a
\* row too many
MatricesFor(aNr, aNt) ==
    {Mat(Sum(aNr) + d, Sum(aNt), InjectSeed) : d \in {0, 1}}
\* User indexes passed to getChannel, in and out of range
UserIndexes == (-2)..MaxK

\* What a call that returns no matrix leaves as its result
NoRet == [shape |-> <<0>>, e |-> <<>>]
\* No cost returned: getCost's Cost before the loops (the int 0, no term added)
NoCost == [sign |-> "zero", terms |-> <<>>]
\* val is the value returned by a method of the simulation framework
Called(op, exc) ==
    [op |-> op, exc |-> exc, k |-> 0, l |-> 0, ret |-> NoRet, trace |-> <<>>,
     cost |-> NoCost, val |-> <<>>]

\* ------------------------------------------------ MultiUserChannelMatrix
Chan == [H |-> H, Nr |-> Nr, Nt |-> Nt, K |-> K]

\* __init__
NewChan == [H |-> EmptyArray, Nr |-> <<>>, Nt |-> <<>>, K |-> 0]

\* A faulty init_from_channel_matrix: K is stored before the arguments are
\* validated
init_from_channel_matrix_StoreFirst(ch, channel_matrix, aNr, aNt, aK) ==
    IF channel_matrix.shape # <<Sum(aNr), Sum(aNt)>>
       \/ Len(aNr) # Len(aNt) \/ Len(aNt) # aK
    THEN [exc |-> "ValueError", ch |-> [ch EXCEPT !.K = aK]]
    ELSE [exc |-> "none",
          ch |-> [H |-> channel_matrix, Nr |-> aNr, Nt |-> aNt, K |-> aK]]

\* init_from_channel_matrix(channel_matrix, Nr, Nt, K) on channel ch:
\* the exception raised and the channel afterwards
init_from_channel_matrix(ch, channel_matrix, aNr, aNt, aK) ==
    IF channel_matrix.shape # <<Sum(aNr), Sum(aNt)>>
    THEN [exc |-> "ValueError", ch |-> ch]
    ELSE IF Len(aNr) # Len(aNt)
    THEN [exc |-> "ValueError", ch |-> ch]
    ELSE IF Len(aNt) # aK
    THEN [exc |-> "ValueError", ch |-> ch]
    ELSE [exc |-> "none",
          ch |-> [H |-> channel_matrix, Nr |-> aNr, Nt |-> aNt, K |-> aK]]

\* randomize(Nr, Nt, K) on channel ch
randomize(ch, aNr, aNt, aK, seed) ==
    LET nr == IF aNr.isInt THEN Ones(aK, aNr.v[1]) ELSE aNr.v
        nt == IF aNt.isInt THEN Ones(aK, aNt.v[1]) ELSE aNt.v
        \* lines 105-107: the three fields are assigned before H is drawn
        ch3 == [ch EXCEPT !.Nr = nr, !.Nt = nt, !.K = aK]
    IN  IF randn_c_raises(Sum(nr), Sum(nt))
        THEN [exc |-> "ValueError", ch |-> ch3]
        ELSE [exc |-> "none",
              ch |-> [ch3 EXCEPT !.H = randn_c(Sum(nr), Sum(nt), seed)]]

\* A faulty getChannel: the column range is taken from the receive counts
getChannel_RowCounts(ch, k, l) ==
    LET cumNr == ZeroPrefixed(ch.Nr)
    IN  IF ~(PyIndexOK(cumNr, k) /\ PyIndexOK(cumNr, k + 1)
             /\ PyIndexOK(cumNr, l) /\ PyIndexOK(cumNr, l + 1))
        THEN [exc |-> "IndexError", ret |-> NoRet]
        ELSE IF Len(ch.H.shape) < 2
        THEN [exc |-> "IndexError", ret |-> NoRet]
        ELSE [exc |-> "none",
              ret |-> Slice2D(ch.H, PyIndex(cumNr, k), PyIndex(cumNr, k + 1),
                              PyIndex(cumNr, l), PyIndex(cumNr, l + 1))]

\* getChannel(k, l) on channel ch: the exception raised and the block returned
getChannel(ch, k, l) ==
    LET cumNr == ZeroPrefixed(ch.Nr)
        cumNt == ZeroPrefixed(ch.Nt)
    IN  IF ~(PyIndexOK(cumNr, k) /\ PyIndexOK(cumNr, k + 1)
             /\ PyIndexOK(cumNt, l) /\ PyIndexOK(cumNt, l + 1))
        THEN [exc |-> "IndexError", ret |-> NoRet]
        ELSE IF Len(ch.H.shape) < 2
        THEN [exc |-> "IndexError", ret |-> NoRet]
        ELSE [exc |-> "none",
              ret |-> Slice2D(ch.H, PyIndex(cumNr, k), PyIndex(cumNr, k + 1),
                              PyIndex(cumNt, l), PyIndex(cumNt, l + 1))]

\* ------------------------------------------------ shapes of numpy results
Ok(shape) == [ok |-> TRUE, shape |-> shape]
Bad == [ok |-> FALSE, shape |-> <<>>]

\* np.dot(a, b) on shapes; a scalar multiplies, otherwise the inner
\* dimensions must agree
Dot(a, b) ==
    IF a = <<>> THEN Ok(b)
    ELSE IF b = <<>> THEN Ok(a)
    ELSE IF Len(a) = 1 /\ Len(b) = 1 THEN (IF a[1] = b[1] THEN Ok(<<>>) ELSE Bad)
    ELSE IF Len(a) = 2 /\ Len(b) = 1 THEN (IF a[2] = b[1] THEN Ok(<<a[1]>>) ELSE Bad)
    ELSE IF Len(a) = 1 /\ Len(b) = 2 THEN (IF a[1] = b[1] THEN Ok(<<b[2]>>) ELSE Bad)
    ELSE IF a[2] = b[1] THEN Ok(<<a[1], b[2]>>) ELSE Bad

\* A.transpose().conjugate() of an array
ConjT(a) == [i \in 1..Len(a) |-> a[Len(a) + 1 - i]]

\* a + b, a - b of arrays: numpy broadcasting
Broadcast(a, b) ==
    LET n == IF Len(a) > Len(b) THEN Len(a) ELSE Len(b)
        pa == Ones(n - Len(a), 1) \o a
        pb == Ones(n - Len(b), 1) \o b
    IN  IF \A i \in 1..n : pa[i] = pb[i] \/ pa[i] = 1 \/ pb[i] = 1
        THEN Ok([i \in 1..n |-> IF pa[i] = 1 THEN pb[i] ELSE pa[i]])
        ELSE Bad

\* np.hstack([a, b]) of arrays (a scalar counts as a 1-element array)
HStack(a, b) ==
    LET a1 == IF a = <<>> THEN <<1>> ELSE a
        b1 == IF b = <<>> THEN <<1>> ELSE b
    IN  IF Len(a1) = 1 /\ Len(b1) = 1 THEN Ok(<<a1[1] + b1[1]>>)
        ELSE IF Len(a1) = 2 /\ Len(b1) = 2 /\ a1[1] = b1[1]
        THEN Ok(<<a1[1], a1[2] + b1[2]>>)
        ELSE Bad

\* misc.peig(A, n)[0] / misc.leig(A, n)[0]: the n dominant (least dominant)
\* eigenvectors of the square matrix A, as the columns 0:n of the sorted
\* eigenvector matrix; the eigendecomposition refuses what is not a square
\* 2-D array.
eig_columns(A, n) ==
    IF Len(A) # 2 \/ A[1] # A[2]
    THEN [exc |-> "LinAlgError", shape |-> <<>>]
    ELSE [exc |-> "none", shape |-> <<A[1], Len(SliceIdx(A[2], 0, n))>>]
peig(A, n) == eig_columns(A, n)
leig(A, n) == eig_columns(A, n)

\* np.linalg.inv(A): A must be a square 2-D array and not singular
inv(A, singular) ==
    IF Len(A) # 2 \/ A[1] # A[2] \/ singular
    THEN [exc |-> "LinAlgError", shape |-> <<>>]
    ELSE [exc |-> "none", shape |-> A]

\* np.zeros(shape, dtype) called as np.zeros(n, m) with two counts (line 258):
\* the second positional argument is the dtype, and a number is no data type
np_zeros_dtype(n, m) == [exc |-> "TypeError", shape |-> <<>>]

\* ------------------------------------------------ AlternatingMinIASolver
Solver == [F |-> F, W |-> W, C |-> C, Ns |-> Ns, ch |-> Chan]

\* __init__ (the empty arrays and the empty list are all sequences of length 0)
NewSolver == [F |-> <<>>, W |-> <<>>, C |-> <<>>, Ns |-> Scalar(0), ch |-> NewChan]

Raise(exc, v) == [exc |-> exc, v |-> v]
Return(v) == [exc |-> "none", v |-> v]

\* updateC, lines 214-220: the loop over l for user k; ck is self.C[k]
RECURSIVE updateC_l(_, _, _, _)
updateC_l(s, k, l, ck) ==
    IF l >= s.ch.K THEN Return(ck)
    ELSE IF k = l THEN updateC_l(s, k, l + 1, ck)
    ELSE LET g == getChannel(s.ch, k, l)
         IN  IF g.exc # "none" THEN Raise(g.exc, ck)
             ELSE IF ~PyIndexOK(s.F, l) THEN Raise("IndexError", ck)
             ELSE LET Hkl_F == Dot(g.ret.shape, PyIndex(s.F, l))
                  IN  IF ~Hkl_F.ok THEN Raise("ValueError", ck)
                      ELSE LET q == Dot(Hkl_F.shape, ConjT(Hkl_F.shape))
                               sum == Broadcast(ck, q.shape)
                           IN  IF ~q.ok \/ ~sum.ok THEN Raise("ValueError", ck)
                               ELSE updateC_l(s, k, l + 1, sum.shape)

\* updateC, lines 212-228: the loop over k; c is self.C, assigned in place
RECURSIVE updateC_k(_, _, _)
updateC_k(s, k, c) ==
    IF k >= s.ch.K THEN Return(c)
    ELSE IF ~PyIndexOK(s.ch.Nr, k) THEN Raise("IndexError", c)
    ELSE IF PyIndex(s.ch.Nr, k) < 0 THEN Raise("ValueError", c)
    ELSE LET r == updateC_l(s, k, 0, <<PyIndex(s.ch.Nr, k)>>)
             c2 == [c EXCEPT ![k + 1] = r.v]
         IN  IF r.exc # "none" THEN Raise(r.exc, c2)
             ELSE IF s.Ns.isInt THEN Raise("TypeError", c2)
             ELSE IF ~PyIndexOK(s.Ns.v, k) THEN Raise("IndexError", c2)
             ELSE LET Ni == PyIndex(s.ch.Nr, k) - PyIndex(s.Ns.v, k)
                      e == peig(c2[k + 1], Ni)
                  IN  IF e.exc # "none" THEN Raise(e.exc, c2)
                      ELSE updateC_k(s, k + 1, [c2 EXCEPT ![k + 1] = e.shape])

\* updateC(): the exception raised and the solver afterwards
updateC(s) ==
    LET r == updateC_k(s, 0, Ones(s.ch.K, <<>>))
    IN  [exc |-> r.exc, s |-> [s EXCEPT !.C = r.v]]

\* updateF, lines 244-248: Y[k] for every user; y is Y
RECURSIVE updateF_Y(_, _, _)
updateF_Y(s, k, y) ==
    IF k >= s.ch.K THEN Return(y)
    ELSE IF ~PyIndexOK(s.ch.Nr, k) THEN Raise("IndexError", y)
    ELSE IF PyIndex(s.ch.Nr, k) < 0 THEN Raise("ValueError", y)
    ELSE IF ~PyIndexOK(s.C, k) THEN Raise("IndexError", y)
    ELSE IF PyIndex(s.C, k) = <<>> THEN Raise("AttributeError", y)
    ELSE LET Ck == PyIndex(s.C, k)
             n == PyIndex(s.ch.Nr, k)
             cc == Dot(Ck, ConjT(Ck))
             d == Broadcast(<<n, n>>, cc.shape)
         IN  IF ~cc.ok \/ ~d.ok THEN Raise("ValueError", y)
             ELSE updateF_Y(s, k + 1, [y EXCEPT ![k + 1] = d.shape])

\* updateF, lines 259-265: the loop over k for user l; fl is newF[l]
RECURSIVE updateF_k(_, _, _, _, _)
updateF_k(s, y, l, k, fl) ==
    IF k >= s.ch.K THEN Return(fl)
    ELSE IF k = l THEN updateF_k(s, y, l, k + 1, fl)
    ELSE LET g == getChannel(s.ch, k, l)
         IN  IF g.exc # "none" THEN Raise(g.exc, fl)
             ELSE LET lH == g.ret.shape
                      a == Dot(ConjT(lH), y[k + 1])
                      b == Dot(a.shape, lH)
                      sum == Broadcast(fl, b.shape)
                  IN  IF ~a.ok \/ ~b.ok \/ ~sum.ok THEN Raise("ValueError", fl)
                      ELSE updateF_k(s, y, l, k + 1, sum.shape)

\* updateF, lines 257-267: the loop over l; newF is the local array
RECURSIVE updateF_l(_, _, _, _)
updateF_l(s, y, l, newF) ==
    IF l >= s.ch.K THEN Return(newF)
    ELSE IF ~PyIndexOK(s.ch.Nt, l) THEN Raise("IndexError", newF)
    ELSE LET z == np_zeros_dtype(PyIndex(s.ch.Nt, l), PyIndex(s.ch.Nt, l))
         IN  IF z.exc # "none" THEN Raise(z.exc, newF)
             ELSE LET r == updateF_k(s, y, l, 0, z.shape)
                  IN  IF r.exc # "none" THEN Raise(r.exc, newF)
                      ELSE IF s.Ns.isInt THEN Raise("TypeError", newF)
                      ELSE IF ~PyIndexOK(s.Ns.v, l) THEN Raise("IndexError", newF)
                      ELSE LET e == leig(r.v, PyIndex(s.Ns.v, l))
                           IN  IF e.exc # "none" THEN Raise(e.exc, newF)
                               ELSE updateF_l(s, y, l + 1,
                                              [newF EXCEPT ![l + 1] = e.shape])

\* updateF(): self.F is assigned once, after the loops (line 268)
updateF(s) ==
    LET y == updateF_Y(s, 0, Ones(s.ch.K, <<>>))
    IN  IF y.exc # "none" THEN [exc |-> y.exc, s |-> s]
        ELSE LET r == updateF_l(s, y.v, 0, Ones(s.ch.K, <<>>))
             IN  IF r.exc # "none" THEN [exc |-> r.exc, s |-> s]
                 ELSE [exc |-> "none", s |-> [s EXCEPT !.F = r.v]]

\* updateW, lines 278-284: the loop over k; newW is the local array and
\* `singular` the user (if any) whose augmented matrix cannot be inverted
RECURSIVE updateW_k(_, _, _, _)
updateW_k(s, singular, k, newW) ==
    IF k >= s.ch.K THEN Return(newW)
    ELSE LET g == getChannel(s.ch, k, k)
         IN  IF g.exc # "none" THEN Raise(g.exc, newW)
             ELSE IF ~PyIndexOK(s.F, k) THEN Raise("IndexError", newW)
             ELSE LET HF == Dot(g.ret.shape, PyIndex(s.F, k))
                  IN  IF ~HF.ok THEN Raise("ValueError", newW)
                      ELSE IF ~PyIndexOK(s.C, k) THEN Raise("IndexError", newW)
                      ELSE LET tildeHi == HStack(HF.shape, PyIndex(s.C, k))
                           IN  IF ~tildeHi.ok THEN Raise("ValueError", newW)
                               ELSE LET i == inv(tildeHi.shape, singular = k)
                                    IN  IF i.exc # "none" THEN Raise(i.exc, newW)
                                        ELSE IF s.Ns.isInt THEN Raise("TypeError", newW)
                                        ELSE IF ~PyIndexOK(s.Ns.v, k)
                                        THEN Raise("IndexError", newW)
                                        ELSE updateW_k(s, singular, k + 1,
                                               [newW EXCEPT ![k + 1] =
                                                  <<Len(SliceIdx(i.shape[1], 0,
                                                                 PyIndex(s.Ns.v, k))),
                                                    i.shape[2]>>])

\* updateW(): self.W is assigned once, after the loop (line 285)
updateW(s, singular) ==
    LET r == updateW_k(s, singular, 0, Ones(s.ch.K, <<>>))
    IN  IF r.exc # "none" THEN [exc |-> r.exc, s |-> s]
        ELSE [exc |-> "none", s |-> [s EXCEPT !.W = r.v]]

\* Signs of the reals getCost computes: np.linalg.norm(A, 'fro') of a 2-D array
\* (0 for an array without entries), x ** 2, and Cost + x
norm_fro(shape) ==
    IF Len(shape) # 2 THEN [exc |-> "ValueError", sign |-> "zero"]
    ELSE [exc |-> "none",
          sign |-> IF shape[1] = 0 \/ shape[2] = 0 THEN "zero" ELSE "nonneg"]
Square(x) == IF x = "zero" THEN "zero" ELSE "nonneg"
Plus(x, y) ==
    IF x = "zero" THEN y
    ELSE IF y = "zero" THEN x
    ELSE IF x = y THEN x
    ELSE "any"

\* getCost, lines 183-193: the term of the pair (k, l), the exception raised
\* and the sign of norm(...) ** 2
getCost_term(s, k, l) ==
    LET g == getChannel(s.ch, k, l)
    IN  IF g.exc # "none" THEN [exc |-> g.exc, sign |-> "zero"]
        ELSE IF ~PyIndexOK(s.F, l) THEN [exc |-> "IndexError", sign |-> "zero"]
        ELSE LET Hkl_Fl == Dot(g.ret.shape, PyIndex(s.F, l))
             IN  IF ~Hkl_Fl.ok THEN [exc |-> "ValueError", sign |-> "zero"]
                 ELSE IF ~PyIndexOK(s.C, k) THEN [exc |-> "IndexError", sign |-> "zero"]
                 ELSE IF PyIndex(s.C, k) = <<>>
                      THEN [exc |-> "AttributeError", sign |-> "zero"]
                 ELSE LET Ck == PyIndex(s.C, k)
                          cc == Dot(Ck, ConjT(Ck))
                          p == Dot(cc.shape, Hkl_Fl.shape)
                          d == Broadcast(Hkl_Fl.shape, p.shape)
                      IN  IF ~cc.ok \/ ~p.ok \/ ~d.ok
                          THEN [exc |-> "ValueError", sign |-> "zero"]
                          ELSE LET n == norm_fro(d.shape)
                               IN  [exc |-> n.exc, sign |-> Square(n.sign)]

\* getCost, lines 181-193: the loop over l for user k; cost is Cost
RECURSIVE getCost_l(_, _, _, _)
getCost_l(s, k, l, cost) ==
    IF l >= s.ch.K THEN Return(cost)
    ELSE IF l = k THEN getCost_l(s, k, l + 1, cost)
    ELSE CHOOSE r \in
           {IF t.exc # "none" THEN Raise(t.exc, cost)
            ELSE getCost_l(s, k, l + 1,
                   [sign |-> Plus(cost.sign, t.sign),
                    terms |-> Append(cost.terms, <<k, l>>)]) :
              t \in {getCost_term(s, k, l)}} : TRUE

\* getCost, lines 180-193: the loop over k
RECURSIVE getCost_k(_, _, _)
getCost_k(s, k, cost) ==
    IF k >= s.ch.K THEN Return(cost)
    ELSE CHOOSE r \in
           {IF rl.exc # "none" THEN rl ELSE getCost_k(s, k + 1, rl.v) :
              rl \in {getCost_l(s, k, 0, cost)}} : TRUE

\* A faulty getCost: the loops start at the second user
getCost_SkipFirst(s) ==
    LET r == getCost_k(s, 1, NoCost)
    IN  [exc |-> r.exc, s |-> s, cost |-> IF r.exc = "none" THEN r.v ELSE NoCost]

\* getCost(): the exception raised, the solver afterwards and the cost returned
getCost(s) ==
    LET r == getCost_k(s, 0, NoCost)
    IN  [exc |-> r.exc, s |-> s, cost |-> IF r.exc = "none" THEN r.v ELSE NoCost]

\* A faulty randomizeF: its K is stored in the channel model
randomizeF_SetsK(s, aNt, aNs, aK) ==
    LET ns == IF aNs.isInt THEN Ones(aK, aNs.v[1]) ELSE aNs.v
    IN  [exc |-> "none", s |-> [s EXCEPT !.Ns = Arr(ns), !.ch.K = aK]]

\* randomizeF, lines 305-306: the loop over k; f is self.F, assigned in place
RECURSIVE randomizeF_k(_, _, _, _, _)
randomizeF_k(nt, ns, aK, k, f) ==
    IF k >= aK THEN Return(f)
    ELSE IF ~PyIndexOK(nt, k) \/ ~PyIndexOK(ns, k) THEN Raise("IndexError", f)
    ELSE IF randn_c_raises(PyIndex(nt, k), PyIndex(ns, k)) THEN Raise("ValueError", f)
    ELSE randomizeF_k(nt, ns, aK, k + 1,
                      [f EXCEPT ![k + 1] = <<PyIndex(nt, k), PyIndex(ns, k)>>])

\* randomizeF(Nt, Ns, K): self._Ns is assigned after the loop (line 308)
randomizeF(s, aNt, aNs, aK) ==
    LET ns == IF aNs.isInt THEN Ones(aK, aNs.v[1]) ELSE aNs.v
        nt == IF aNt.isInt THEN Ones(aK, aNt.v[1]) ELSE aNt.v
        r == randomizeF_k(nt, ns, aK, 0, Ones(aK, <<>>))
    IN  IF r.exc # "none" THEN [exc |-> r.exc, s |-> [s EXCEPT !.F = r.v]]
        ELSE [exc |-> "none", s |-> [s EXCEPT !.F = r.v, !.Ns = Arr(ns)]]

\* randomizeH / init_from_channel_matrix of the solver: the channel model's
randomizeH(s, aNr, aNt, aK, seed) ==
    LET r == randomize(s.ch, aNr, aNt, aK, seed)
    IN  [exc |-> r.exc, s |-> [s EXCEPT !.ch = r.ch]]

solver_init_from_channel_matrix(s, channel_matrix, aNr, aNt, aK) ==
    LET r == init_from_channel_matrix(s.ch, channel_matrix, aNr, aNt, aK)
    IN  [exc |-> r.exc, s |-> [s EXCEPT !.ch = r.ch]]

\* step(), lines 199-201: the three updates in sequence; an exception ends
\* the call. trace lists the updates that were started.
step_W(f, singular) ==
    IF f.exc # "none"
    THEN [exc |-> f.exc, s |-> f.s, trace |-> <<"updateC", "updateF">>]
    ELSE LET w == updateW(f.s, singular)
         IN  [exc |-> w.exc, s |-> w.s, trace |-> <<"updateC", "updateF", "updateW">>]

step_F(c, singular) ==
    IF c.exc # "none"
    THEN [exc |-> c.exc, s |-> c.s, trace |-> <<"updateC">>]
    ELSE step_W(updateF(c.s), singular)

\* A faulty step: an exception of updateC or updateF is swallowed and the
\* next update runs all the same
step_KeepGoing(s, singular) ==
    LET c == updateC(s)
        f == updateF(c.s)
        w == updateW(f.s, singular)
    IN  [exc |-> w.exc, s |-> w.s, trace |-> <<"updateC", "updateF", "updateW">>]

step(s, singular) == step_F(updateC(s), singular)

\* ------------------------------------------------------------- actions
SetChan(ch) == /\ H' = ch.H
               /\ Nr' = ch.Nr
               /\ Nt' = ch.Nt
               /\ K' = ch.K
               /\ UNCHANGED simVars

InitFromChannelMatrix ==
    \E aNr \in UserArrays, aNt \in UserArrays, aK \in InjectKArgs :
      \E m \in MatricesFor(aNr, aNt) :
        \E r \in {init_from_channel_matrix(Chan, m, aNr, aNt, aK)} :
            /\ SetChan(r.ch)
            /\ last' = Called("init_from_channel_matrix", r.exc)
            /\ UNCHANGED <<F, W, C, Ns>>

Randomize ==
    \E aNr \in CountArgs, aNt \in CountArgs, aK \in KArgs :
        \E r \in {randomize(Chan, aNr, aNt, aK, RandomSeed)} :
            /\ SetChan(r.ch)
            /\ last' = Called("randomize", r.exc)
            /\ UNCHANGED <<F, W, C, Ns>>

GetChannel ==
    \E k \in UserIndexes, l \in UserIndexes :
        \E r \in {getChannel(Chan, k, l)} :
            /\ last' = [op |-> "getChannel", exc |-> r.exc,
                        k |-> k, l |-> l, ret |-> r.ret, trace |-> <<>>,
                        cost |-> NoCost, val |-> <<>>]
            /\ UNCHANGED <<H, Nr, Nt, K, F, W, C, Ns>>
            /\ UNCHANGED simVars

\* SimulationRunner.__init__ and SimulationParameters.__init__
NewRunner == [rep_max |-> 1, runned_reps |-> <<>>, results |-> <<>>, pc |-> "idle"]
NewParams == [parameters |-> <<>>, unpacked |-> {}]

\* ProgressbarText(finalcount, '*', message)
ProgressbarText(finalcount) == [finalcount |-> finalcount, blockcount |-> 0]

Init == /\ H = NewChan.H
        /\ Nr = NewChan.Nr
        /\ Nt = NewChan.Nt
        /\ K = NewChan.K
        /\ F = <<>>
        /\ W = <<>>
        /\ C = <<>>
        /\ Ns = Scalar(0)
        /\ last = Called("__init__", "none")
        /\ results = <<>>
        /\ updates = <<>>
        /\ lists = <<>>
        /\ sims = <<>>
        /\ runner = NewRunner
        /\ params = NewParams
        /\ bar = ProgressbarText(0)
        /\ stdout = <<>>

\* The channel model alone, injected and randomised
NextChannel == InitFromChannelMatrix \/ Randomize

SpecChannel == Init /\ [][NextChannel]_vars

\* The channel model injected, and its blocks read
NextBlocks == InitFromChannelMatrix \/ GetChannel

SpecBlocks == Init /\ [][NextBlocks]_vars

\* ----------------------------------------------------- solver actions
SetSolver(s) == /\ F' = s.F
                /\ W' = s.W
                /\ C' = s.C
                /\ Ns' = s.Ns
                /\ SetChan(s.ch)

\* The user whose augmented matrix numpy.linalg.inv finds singular: none (-1)
\* or the first (a later one raises the same way)
SingularUsers == {-1, 0}

\* The solver is driven with the scalar form of the antenna counts (MaxAnt
\* receive antennas in a drawn channel), with one stream per user (as a scalar,
\* or as a per-user array for one user), with precoders for at least one user
\* and with injected channels whose users have 1, 2, ... antennas; the channel
\* model's own arguments are explored in SpecChannel and SpecBlocks.
SolverScalars == {Scalar(n) : n \in 1..MaxAnt}
SolverStreams == {Scalar(1), Arr(<<1>>)}
Ramp(n) == [i \in 1..n |-> IF i < MaxAnt THEN i ELSE MaxAnt]

RandomizeH ==
    \E aNr \in {Scalar(MaxAnt)}, aNt \in SolverScalars, aK \in KArgs :
        \E r \in {randomizeH(Solver, aNr, aNt, aK, RandomSeed)} :
            /\ SetSolver(r.s)
            /\ last' = Called("randomizeH", r.exc)

SolverInitFromChannelMatrix ==
    \E n \in InjectKArgs, aK \in InjectKArgs :
      \E aNr \in {Ramp(n)}, aNt \in {Ramp(n)}, m \in MatricesFor(Ramp(n), Ramp(n)) :
        \E r \in {solver_init_from_channel_matrix(Solver, m, aNr, aNt, aK)} :
            /\ SetSolver(r.s)
            /\ last' = Called("init_from_channel_matrix", r.exc)

RandomizeF ==
    \E aNt \in SolverScalars, aNs \in SolverStreams, aK \in InjectKArgs :
        \E r \in {randomizeF(Solver, aNt, aNs, aK)} :
            /\ SetSolver(r.s)
            /\ last' = Called("randomizeF", r.exc)

UpdateC ==
    \E r \in {updateC(Solver)} :
        /\ SetSolver(r.s)
        /\ last' = Called("updateC", r.exc)

UpdateF ==
    \E r \in {updateF(Solver)} :
        /\ SetSolver(r.s)
        /\ last' = Called("updateF", r.exc)

UpdateW ==
    \E singular \in SingularUsers :
        \E r \in {updateW(Solver, singular)} :
            /\ SetSolver(r.s)
            /\ last' = Called("updateW", r.exc)

GetCost ==
    \E r \in {getCost(Solver)} :
        /\ SetSolver(r.s)
        /\ last' = [Called("getCost", r.exc) EXCEPT !.cost = r.cost]

Step ==
    \E singular \in SingularUsers :
        \E r \in {step(Solver, singular)} :
            /\ SetSolver(r.s)
            /\ last' = [Called("step", r.exc) EXCEPT !.trace = r.trace]

\* The solver and the channel model it holds
Next ==
    \/ RandomizeH
    \/ SolverInitFromChannelMatrix
    \/ RandomizeF
    \/ UpdateC
    \/ UpdateF
    \/ UpdateW
    \/ GetCost
    \/ Step

Spec == Init /\ [][Next]_vars

\* The solver on drawn channels: configuration, the updates, the cost
NextDrawn ==
    \/ RandomizeH
    \/ RandomizeF
    \/ UpdateC
    \/ UpdateF
    \/ UpdateW
    \/ GetCost
    \/ Step

SpecDrawn == Init /\ [][NextDrawn]_vars

\* The solver configured and stepped
NextStep == RandomizeH \/ RandomizeF \/ Step

SpecStep == Init /\ [][NextStep]_vars

\* ------------------------------------------------------------- Result
\* The update types (simulations.py line 640)
SUMTYPE == 0
RATIOTYPE == 1
STRINGTYPE == 2
FLOATTYPE == 3

\* Largest number of update calls a Result receives (merged ones included).
MaxUpdates == 2
\* The Results of a merge call: self and other
Operands == 2

ResultNames == {"x", "y"}
ResultTypes == {SUMTYPE, RATIOTYPE, STRINGTYPE, FLOATTYPE}
\* update(value, total) arguments: total left at its default 0 with value 0
\* or not, a proper ratio, and a value above the total
UpdateArgs == {<<0, 0>>, <<1, 0>>, <<1, 2>>, <<2, 1>>}

\* Result.__init__(name, update_type)
Result(name, update_type) ==
    [name |-> name, type |-> update_type, value |-> 0, total |-> 0,
     num_updates |-> 0]

\* Result.update(value, total): the exception raised and the Result afterwards
update(r, value, total) ==
    LET r1 == [r EXCEPT !.num_updates = @ + 1]
    IN  IF r.type = RATIOTYPE
        THEN IF ~(value <= total) THEN [exc |-> "AssertionError", r |-> r1]
             ELSE IF total = 0 THEN [exc |-> "none", r |-> r1]
             ELSE [exc |-> "none",
                   r |-> [r1 EXCEPT !.value = @ + value, !.total = @ + total]]
        ELSE IF r.type = SUMTYPE
        THEN [exc |-> "none", r |-> [r1 EXCEPT !.value = @ + value]]
        ELSE IF r.type \in {STRINGTYPE, FLOATTYPE}
        THEN [exc |-> "none", r |-> [r1 EXCEPT !.value = value]]
        ELSE [exc |-> "none", r |-> r1]

\* A faulty merge: the totals are not added
merge_ValueOnly(a, b) ==
    IF a.type # b.type \/ a.type = STRINGTYPE \/ a.name # b.name
    THEN [exc |-> "AssertionError", r |-> a]
    ELSE [exc |-> "none",
          r |-> [a EXCEPT !.num_updates = @ + b.num_updates,
                          !.value = @ + b.value]]

\* Result.merge(other) on self = a, other = b
merge(a, b) ==
    IF a.type # b.type THEN [exc |-> "AssertionError", r |-> a]
    ELSE IF a.type = STRINGTYPE THEN [exc |-> "AssertionError", r |-> a]
    ELSE IF a.name # b.name THEN [exc |-> "AssertionError", r |-> a]
    ELSE [exc |-> "none",
          r |-> [a EXCEPT !.num_updates = @ + b.num_updates,
                          !.value = @ + b.value,
                          !.total = @ + b.total]]

\* Result.get_result(): a ratio float(value) / total is kept as the pair
get_result(r) ==
    IF r.num_updates = 0 THEN [exc |-> "none", val |-> <<"Nothing yet">>]
    ELSE IF r.type = RATIOTYPE
    THEN IF r.total = 0 THEN [exc |-> "ZeroDivisionError", val |-> <<>>]
         ELSE [exc |-> "none", val |-> <<"ratio", r.value, r.total>>]
    ELSE [exc |-> "none", val |-> <<r.value>>]

solverVars == <<H, Nr, Nt, K, F, W, C, Ns>>

NewResult ==
    \E name \in ResultNames, update_type \in ResultTypes :
        /\ Len(results) < Operands
        /\ results' = Append(results, Result(name, update_type))
        /\ updates' = Append(updates, <<>>)
        /\ last' = [Called("Result", "none") EXCEPT !.k = Len(results) + 1]
        /\ UNCHANGED <<lists, sims, runner, params, bar, stdout>>
        /\ UNCHANGED solverVars

Update ==
    \E i \in 1..Len(results), a \in UpdateArgs :
        \E r \in {update(results[i], a[1], a[2])} :
            /\ Len(updates[i]) < MaxUpdates
            /\ results' = [results EXCEPT ![i] = r.r]
            /\ updates' = [updates EXCEPT ![i] = Append(@, a)]
            /\ last' = [Called("update", r.exc) EXCEPT !.k = i]
            /\ UNCHANGED <<lists, sims, runner, params, bar, stdout>>
            /\ UNCHANGED solverVars

\* a.merge(b): a then holds what b's updates gave b, so they are counted as
\* received by a
Merge ==
    \E i \in 1..Len(results), j \in 1..Len(results) :
        \E r \in {merge(results[i], results[j])} :
            /\ Len(updates[i]) + Len(updates[j]) <= MaxUpdates
            /\ results' = [results EXCEPT ![i] = r.r]
            /\ updates' = [updates EXCEPT ![i] =
                             IF r.exc = "none" THEN @ \o updates[j] ELSE @]
            /\ last' = [Called("merge", r.exc) EXCEPT !.k = i, !.l = j]
            /\ UNCHANGED <<lists, sims, runner, params, bar, stdout>>
            /\ UNCHANGED solverVars

GetResult ==
    \E i \in 1..Len(results) :
        \E r \in {get_result(results[i])} :
            /\ last' = [Called("get_result", r.exc) EXCEPT !.k = i, !.val = r.val]
            /\ UNCHANGED simVars
            /\ UNCHANGED solverVars

\* Results created, updated and read
NextUpdate == NewResult \/ Update \/ GetResult

SpecUpdate == Init /\ [][NextUpdate]_vars

\* Results created, updated and merged
NextMerge == NewResult \/ Update \/ Merge

SpecMerge == Init /\ [][NextMerge]_vars

\* -------------------------------------------------- SimulationResults
\* Largest number of Results created for SimulationResults objects.
MaxStored == 3

\* The values of the Results stored
StoredValues == {1, 2}

\* The objects the methods work on
Heap == [results |-> results, lists |-> lists, sims |-> sims]

\* SimulationResults.__init__: a dictionary without keys
NewSimulationResults == [name \in ResultNames |-> 0]

\* self._results.keys() and len(self)
Keys(d) == {name \in ResultNames : d[name] # 0}
len(d) == Cardinality(Keys(d))

\* The orders in which a dictionary may list the keys in S
KeyOrders(S) ==
    {p \in [1..Cardinality(S) -> S] : \A i, j \in 1..Cardinality(S) :
                                         p[i] = p[j] => i = j}

\* Result.create(name, update_type, value, total)
create(name, update_type, value, total) ==
    update(Result(name, update_type), value, total).r

\* add_result(result): the name is bound to a new list [result]
add_result(h, s, rid) ==
    [h EXCEPT !.lists = Append(@, <<rid>>),
              !.sims[s][h.results[rid].name] = Len(h.lists) + 1]

\* append_result(result): the list stored under the name grows in place
append_result(h, s, rid) ==
    LET name == h.results[rid].name
    IN  IF name \in Keys(h.sims[s])
        THEN [h EXCEPT !.lists[h.sims[s][name]] = Append(@, rid)]
        ELSE add_result(h, s, rid)

\* merge_all_results, lines 534-535: the loop over the keys of self, in the
\* order ord
RECURSIVE merge_all_results_loop(_, _, _, _)
merge_all_results_loop(h, s, o, ord) ==
    IF ord = <<>> THEN [exc |-> "none", h |-> h]
    ELSE LET item == Head(ord)
         IN  IF h.sims[o][item] = 0 THEN [exc |-> "KeyError", h |-> h]
             ELSE LET mine == h.lists[h.sims[s][item]]
                      theirs == h.lists[h.sims[o][item]]
                      a == mine[Len(mine)]
                      b == theirs[Len(theirs)]
                      m == merge(h.results[a], h.results[b])
                  IN  IF m.exc # "none" THEN [exc |-> m.exc, h |-> h]
                      ELSE merge_all_results_loop(
                               [h EXCEPT !.results[a] = m.r], s, o, Tail(ord))

\* merge_all_results(other) on self = s, other = o: an empty self takes over
\* the lists of other (lines 528-530), a non-empty one merges (lines 534-535)
merge_all_results(h, s, o, ord) ==
    IF len(h.sims[s]) = 0
    THEN [exc |-> "none", h |-> [h EXCEPT !.sims[s] = h.sims[o]]]
    ELSE merge_all_results_loop(h, s, o, ord)

\* What the SimulationResults d of heap h holds: per name, the Results in
\* its list
Stored(h, d) ==
    [name \in ResultNames |->
       IF d[name] = 0 THEN <<>>
       ELSE [i \in 1..Len(h.lists[d[name]]) |-> h.results[h.lists[d[name]][i]]]]

SetHeap(h) == /\ results' = h.results
              /\ lists' = h.lists
              /\ sims' = h.sims

NewSims ==
    /\ Len(sims) < Operands
    /\ sims' = Append(sims, NewSimulationResults)
    /\ last' = [Called("SimulationResults", "none") EXCEPT !.k = Len(sims) + 1]
    /\ UNCHANGED <<results, updates, lists, runner, params, bar, stdout>>
    /\ UNCHANGED solverVars

\* add_result(Result.create(name, SUMTYPE, value))
AddResult ==
    \E s \in 1..Len(sims), name \in ResultNames, value \in StoredValues :
        /\ Len(results) < MaxStored
        /\ SetHeap(add_result(
               [Heap EXCEPT !.results = Append(@, create(name, SUMTYPE, value, 0))],
               s, Len(results) + 1))
        /\ updates' = Append(updates, <<<<value, 0>>>>)
        /\ last' = [Called("add_result", "none") EXCEPT !.k = s, !.val = <<name>>]
        /\ UNCHANGED <<runner, params, bar, stdout>>
        /\ UNCHANGED solverVars

\* append_result(Result.create(name, SUMTYPE, value))
AppendResult ==
    \E s \in 1..Len(sims), name \in ResultNames, value \in StoredValues :
        /\ Len(results) < MaxStored
        /\ SetHeap(append_result(
               [Heap EXCEPT !.results = Append(@, create(name, SUMTYPE, value, 0))],
               s, Len(results) + 1))
        /\ updates' = Append(updates, <<<<value, 0>>>>)
        /\ last' = [Called("append_result", "none") EXCEPT !.k = s, !.val = <<name>>]
        /\ UNCHANGED <<runner, params, bar, stdout>>
        /\ UNCHANGED solverVars

MergeAllResults ==
    \E s \in 1..Len(sims), o \in 1..Len(sims) :
      \E ord \in KeyOrders(Keys(sims[s])) :
        \E r \in {merge_all_results(Heap, s, o, ord)} :
            /\ \A i \in 1..Len(results) : r.h.results[i].num_updates <= MaxUpdates
            /\ SetHeap(r.h)
            /\ last' = [Called("merge_all_results", r.exc) EXCEPT !.k = s, !.l = o]
            /\ UNCHANGED <<updates, runner, params, bar, stdout>>
            /\ UNCHANGED solverVars

LenSims ==
    \E s \in 1..Len(sims) :
        /\ last' = [Called("__len__", "none") EXCEPT !.k = s,
                                                     !.val = <<len(sims[s])>>]
        /\ UNCHANGED simVars
        /\ UNCHANGED solverVars

\* SimulationResults objects filled and merged
NextSims == NewSims \/ AddResult \/ AppendResult \/ MergeAllResults \/ LenSims

SpecSims == Init /\ [][NextSims]_vars

\* ------------------------------------------------ SimulationParameters
\* Parameter names, the name "c" being never added; a value is an int
\* (Scalar, not Iterable) or a list (Arr), one of the lists holding the same
\* value twice
ParamNames == {"a", "b"}
AskedNames == ParamNames \cup {"c"}
ParamValues == {Scalar(1), Arr(<<1, 2>>), Arr(<<1, 1>>), Arr(<<1, 2, 3>>)}

\* add(name, value): self.parameters[name] = value
add(p, name, value) ==
    [p EXCEPT !.parameters =
        [n \in (DOMAIN p.parameters) \cup {name} |->
           IF n = name THEN value ELSE p.parameters[n]]]

\* set_unpack_parameter(name, unpack_bool): the exception raised and the
\* SimulationParameters afterwards
set_unpack_parameter(p, name, unpack_bool) ==
    IF name \in DOMAIN p.parameters
    THEN IF ~p.parameters[name].isInt
         THEN [exc |-> "none", p |-> [p EXCEPT !.unpacked = @ \cup {name}]]
         ELSE [exc |-> "ValueError", p |-> p]
    ELSE [exc |-> "ValueError", p |-> p]

\* The values c[1], c[2], ... put in front of every combination in rest
RECURSIVE Prepend(_, _, _)
Prepend(key, values, rest) ==
    IF values = <<>> THEN <<>>
    ELSE [i \in 1..Len(rest) |-> [n \in {key} \cup DOMAIN rest[i] |->
                                    IF n = key THEN values[1] ELSE rest[i][n]]]
         \o Prepend(key, Tail(values), rest)

\* itertools.product over the values of the parameters in keys, as
\* dictionaries key -> value: the last key varies fastest
RECURSIVE product(_, _)
product(p, keys) ==
    IF keys = <<>> THEN << <<>> >>
    ELSE Prepend(keys[1], p.parameters[keys[1]].v, product(p, Tail(keys)))

\* get_unpacked_params_list(), the set of unpacked names being listed in the
\* order keys: the parameter dictionaries of the combinations
get_unpacked_params_list(p, keys) ==
    IF p.unpacked = {} THEN [exc |-> "none", list |-> <<p.parameters>>]
    ELSE IF \E n \in p.unpacked : p.parameters[n].isInt
    THEN [exc |-> "TypeError", list |-> <<>>]
    ELSE LET combs == product(p, keys)
         IN  [exc |-> "none",
              list |-> [i \in 1..Len(combs) |->
                          [n \in DOMAIN p.parameters |->
                             IF n \in p.unpacked THEN Scalar(combs[i][n])
                             ELSE p.parameters[n]]]]

\* Nothing else runs while simulate() does
Idle == runner.pc = "idle"

Add ==
    \E name \in ParamNames, value \in ParamValues :
        /\ Idle
        /\ params' = add(params, name, value)
        /\ last' = [Called("add", "none") EXCEPT !.val = <<name>>]
        /\ UNCHANGED <<results, updates, lists, sims, runner, bar, stdout>>
        /\ UNCHANGED solverVars

SetUnpackParameter ==
    \E name \in AskedNames, unpack_bool \in BOOLEAN :
        \E r \in {set_unpack_parameter(params, name, unpack_bool)} :
            /\ Idle
            /\ params' = r.p
            /\ last' = [Called("set_unpack_parameter", r.exc)
                          EXCEPT !.val = <<name, unpack_bool>>]
            /\ UNCHANGED <<results, updates, lists, sims, runner, bar, stdout>>
            /\ UNCHANGED solverVars

\* SimulationParameters filled and marked
NextParams == Add \/ SetUnpackParameter

SpecParams == Init /\ [][NextParams]_vars

\* ------------------------------------------ unpacking the parameters
\* The lengths of the unpacked parameters, in the order keys
lengths(p, keys) == [i \in 1..Len(keys) |-> Len(p.parameters[keys[i]].v)]

\* reduce(lambda x, y: x * y, gen_values) of a sequence with an element
RECURSIVE reduce(_)
reduce(s) == IF Len(s) = 1 THEN s[1] ELSE s[1] * reduce(Tail(s))

\* get_num_unpacked_variations(): reduce() of no length at all and len() of
\* an int raise TypeError
get_num_unpacked_variations(p, keys) ==
    IF keys = <<>> THEN [exc |-> "TypeError", ret |-> 0]
    ELSE IF \E n \in p.unpacked : p.parameters[n].isInt
    THEN [exc |-> "TypeError", ret |-> 0]
    ELSE [exc |-> "none", ret |-> reduce(lengths(p, keys))]

\* list(values).index(x), counted from 0; -1 when x is not in the list and
\* index raises ValueError
RECURSIVE index(_, _)
index(values, x) ==
    IF values = <<>> THEN -1
    ELSE IF values[1] = x THEN 0
    ELSE LET i == index(Tail(values), x) IN IF i = -1 THEN -1 ELSE i + 1

\* The ":" in param_indexes, told from every index
Colon == -1

\* get_pack_indexes, lines 319-325: the loop over the unpacked parameters; a
\* varying parameter gets ":", a fixed one the index of its fixed value
RECURSIVE param_indexes(_, _, _, _)
param_indexes(p, keys, varying_param, fixed_params_dict) ==
    IF keys = <<>> THEN [exc |-> "none", v |-> <<>>]
    ELSE IF keys[1] = varying_param
    THEN LET r == param_indexes(p, Tail(keys), varying_param, fixed_params_dict)
         IN  [exc |-> r.exc, v |-> <<Colon>> \o r.v]
    ELSE IF p.parameters[keys[1]].isInt THEN [exc |-> "TypeError", v |-> <<>>]
    ELSE LET i == index(p.parameters[keys[1]].v, fixed_params_dict[keys[1]])
         IN  IF i = -1 THEN [exc |-> "ValueError", v |-> <<>>]
             ELSE LET r == param_indexes(p, Tail(keys), varying_param,
                                         fixed_params_dict)
                  IN  [exc |-> r.exc, v |-> <<i>> \o r.v]

\* The entry of np.arange(...) with the shape dimensions at the indexes idx
\* (C order: the last index varies fastest)
RECURSIVE ravel(_, _, _)
ravel(idx, dimensions, acc) ==
    IF idx = <<>> THEN acc
    ELSE ravel(Tail(idx), Tail(dimensions), acc * dimensions[1] + idx[1])

\* aux[param_indexes], one of the indexes being ":"
slice(idx, dimensions) ==
    LET j == CHOOSE i \in 1..Len(idx) : idx[i] = Colon
    IN  [t \in 1..dimensions[j] |->
           ravel([i \in 1..Len(idx) |-> IF i = j THEN t - 1 ELSE idx[i]],
                 dimensions, 0)]

\* get_pack_indexes(fixed_params_dict), the set of unpacked names being
\* listed in the order keys: the exception raised and the indexes returned
get_pack_indexes(p, keys, fixed_params_dict) ==
    LET varying_param == p.unpacked \ DOMAIN fixed_params_dict
    IN  IF Cardinality(varying_param) # 1
        THEN [exc |-> "AssertionError", ret |-> <<>>]
        ELSE LET r == param_indexes(p, keys, CHOOSE n \in varying_param : TRUE,
                                    fixed_params_dict)
             IN  IF r.exc # "none" THEN [exc |-> r.exc, ret |-> <<>>]
                 ELSE IF \E n \in p.unpacked : p.parameters[n].isInt
                 THEN [exc |-> "TypeError", ret |-> <<>>]
                 ELSE [exc |-> "none", ret |-> slice(r.v, lengths(p, keys))]

\* The values a parameter is fixed at, and the dictionaries handed to
\* get_pack_indexes
FixedValues == {1, 2, 3}
FixedDicts ==
    UNION {[names -> FixedValues] : names \in SUBSET ParamNames}

GetUnpackedParamsList ==
    \E keys \in KeyOrders(params.unpacked) :
        \E r \in {get_unpacked_params_list(params, keys)} :
            /\ Idle
            /\ last' = [Called("get_unpacked_params_list", r.exc)
                          EXCEPT !.val = <<keys, r.list>>]
            /\ UNCHANGED simVars
            /\ UNCHANGED solverVars

GetNumUnpackedVariations ==
    \E keys \in KeyOrders(params.unpacked) :
        \E r \in {get_num_unpacked_variations(params, keys)} :
            /\ Idle
            /\ last' = [Called("get_num_unpacked_variations", r.exc)
                          EXCEPT !.val = <<keys, r.ret>>]
            /\ UNCHANGED simVars
            /\ UNCHANGED solverVars

GetPackIndexes ==
    \E keys \in KeyOrders(params.unpacked), fixed_params_dict \in FixedDicts :
        \E r \in {get_pack_indexes(params, keys, fixed_params_dict)} :
            /\ Idle
            /\ last' = [Called("get_pack_indexes", r.exc)
                          EXCEPT !.val = <<keys, fixed_params_dict, r.ret>>]
            /\ UNCHANGED simVars
            /\ UNCHANGED solverVars

\* SimulationParameters filled, marked and unpacked
NextUnpack ==
    \/ Add
    \/ SetUnpackParameter
    \/ GetUnpackedParamsList
    \/ GetNumUnpackedVariations
    \/ GetPackIndexes

SpecUnpack == Init /\ [][NextUnpack]_vars

\* ------------------------------------------------------ ProgressbarText
\* Largest number of progress calls made on one bar.
MaxCalls == 4
\* The final counts of the bars and the counts passed to progress, some of
\* them above the final count
FinalCounts == {0, 3, 100}
Counts == {0, 1, 2, 3, 20, 40, 50, 99, 100, 101}

\* progress, lines 92-107: the number of characters that stand for count
blockcount(b, count) ==
    LET c == IF count < b.finalcount THEN count ELSE b.finalcount
        percent == (100 * c) \div b.finalcount
        percentcomplete == IF b.finalcount # 0
                           THEN (IF percent < 1 THEN 1 ELSE percent)
                           ELSE 100
    IN  percentcomplete \div 2

\* A faulty progress: blockcount is stored whatever it was
progress_Always(b, count) == [b EXCEPT !.blockcount = blockcount(b, count)]

\* ProgressbarText.progress(count): the bar afterwards
progress(b, count) ==
    IF blockcount(b, count) > b.blockcount
    THEN [b EXCEPT !.blockcount = blockcount(b, count)]
    ELSE b

\* progress, lines 108-115: the number of progress characters written, one
\* for each i in range(self.blockcount, blockcount)
written(b, count) ==
    IF blockcount(b, count) > b.blockcount
    THEN Cardinality(b.blockcount .. (blockcount(b, count) - 1))
    ELSE 0

NewProgressbarText ==
    \E finalcount \in FinalCounts :
        /\ bar' = ProgressbarText(finalcount)
        /\ stdout' = <<>>
        /\ last' = Called("ProgressbarText", "none")
        /\ UNCHANGED <<results, updates, lists, sims, runner, params>>
        /\ UNCHANGED solverVars

Progress ==
    \E count \in Counts :
        /\ Len(stdout) < MaxCalls
        /\ bar' = progress(bar, count)
        /\ stdout' = Append(stdout, [count |-> count,
                                     chars |-> written(bar, count),
                                     blockcount |-> bar'.blockcount])
        /\ last' = Called("progress", "none")
        /\ UNCHANGED <<results, updates, lists, sims, runner, params>>
        /\ UNCHANGED solverVars

\* A progress bar created and advanced
NextBar == NewProgressbarText \/ Progress

SpecBar == Init /\ [][NextBar]_vars

\* ---------------------------------------------------- SimulationRunner
\* Largest rep_max set.
MaxRep == 2
\* Largest number of parameter combinations simulated by one runner.
MaxRecorded == 4

\* What a _run_simulation of the subclass returns: a new SimulationResults
\* holding one Result, the count 1 under the name "x"
RunResults == [name \in ResultNames |->
                 IF name = "x" THEN <<create("x", SUMTYPE, 1, 0)>> ELSE <<>>]

\* current_sim_results.merge_all_results(other), both holding one Result
\* under "x": what current_sim_results holds afterwards
merge_run(current, other) ==
    LET h == [results |-> <<current["x"][1], other["x"][1]>>,
              lists |-> <<<<1>>, <<2>>>>,
              sims |-> <<[name \in ResultNames |-> IF name = "x" THEN 1 ELSE 0],
                         [name \in ResultNames |-> IF name = "x" THEN 2 ELSE 0]>>]
        r == merge_all_results(h, 1, 2, <<"x">>)
    IN  Stored(r.h, r.h.sims[1])

SetRepMax ==
    \E n \in 0..MaxRep :
        /\ Idle
        /\ runner' = [runner EXCEPT !.rep_max = n]
        /\ last' = Called("rep_max", "none")
        /\ UNCHANGED <<results, updates, lists, sims, params, bar, stdout>>
        /\ UNCHANGED solverVars

\* simulate(), lines 129-134: the list of the parameter combinations
SimulateBegin ==
    \E keys \in KeyOrders(params.unpacked) :
        \E r \in {get_unpacked_params_list(params, keys)} :
            /\ Idle
            /\ Len(runner.runned_reps) + Len(r.list) <= MaxRecorded
            /\ IF r.exc # "none" THEN UNCHANGED runner
               ELSE runner' = [rep_max |-> runner.rep_max,
                               runned_reps |-> runner.runned_reps,
                               results |-> runner.results,
                               pc |-> "for", todo |-> r.list]
            /\ last' = Called("simulate", r.exc)
            /\ UNCHANGED <<results, updates, lists, sims, params, bar, stdout>>
            /\ UNCHANGED solverVars

\* simulate(), lines 134-146: the progress bar and the first iteration of a
\* combination
FirstIteration ==
    /\ runner.pc = "for" /\ runner.todo # <<>>
    /\ runner' = [rep_max |-> runner.rep_max,
                  runned_reps |-> runner.runned_reps,
                  results |-> runner.results,
                  pc |-> "while", todo |-> runner.todo,
                  bar |-> ProgressbarText(runner.rep_max),
                  current_sim_results |-> RunResults,
                  current_rep |-> 1,
                  calls |-> 1]
    /\ last' = Called("_run_simulation", "none")
    /\ UNCHANGED <<results, updates, lists, sims, params, bar, stdout>>
    /\ UNCHANGED solverVars

\* simulate(), lines 149-155: _keep_going returned True and the repetitions
\* are not used up: one more iteration
NextIteration ==
    /\ runner.pc = "while"
    /\ runner.current_rep < runner.rep_max
    /\ runner' = [runner EXCEPT
                    !.current_sim_results = merge_run(@, RunResults),
                    !.bar = progress(@, runner.current_rep + 1),
                    !.current_rep = @ + 1,
                    !.calls = @ + 1]
    /\ last' = [Called("_run_simulation", "none") EXCEPT !.val = <<TRUE>>]
    /\ UNCHANGED <<results, updates, lists, sims, params, bar, stdout>>
    /\ UNCHANGED solverVars

\* simulate(), lines 149-163: _keep_going returned keep_going, the loop ends
\* and the combination is recorded; the bar is set to full and, like the
\* other locals of the combination, read no more
EndCombination ==
    \E keep_going \in BOOLEAN :
        /\ runner.pc = "while"
        /\ ~(keep_going /\ runner.current_rep < runner.rep_max)
        /\ runner' = [rep_max |-> runner.rep_max,
                      runned_reps |-> Append(runner.runned_reps, runner.current_rep),
                      results |-> Append(runner.results, runner.current_sim_results),
                      pc |-> "for", todo |-> Tail(runner.todo)]
        /\ last' = [Called("_keep_going", "none") EXCEPT
                      !.val = <<keep_going>>, !.k = runner.calls]
        /\ UNCHANGED <<results, updates, lists, sims, params, bar, stdout>>
        /\ UNCHANGED solverVars

\* simulate(), lines 165-168: all combinations done
SimulateEnd ==
    /\ runner.pc = "for" /\ runner.todo = <<>>
    /\ runner' = [rep_max |-> runner.rep_max,
                  runned_reps |-> runner.runned_reps,
                  results |-> runner.results,
                  pc |-> "idle"]
    /\ last' = Called("simulate", "none")
    /\ UNCHANGED <<results, updates, lists, sims, params, bar, stdout>>
    /\ UNCHANGED solverVars

\* A runner configured and run
NextRunner ==
    \/ Add
    \/ SetUnpackParameter
    \/ SetRepMax
    \/ SimulateBegin
    \/ FirstIteration
    \/ NextIteration
    \/ EndCombination
    \/ SimulateEnd

SpecRunner == Init /\ [][NextRunner]_vars

\* ------------------------------------------------------------------ claims
Users == 0..(K - 1)

\* The channel model holds K users with per-user counts and a matching matrix
ValidChannel ==
    /\ Len(Nr) = K
    /\ Len(Nt) = K
    /\ \A i \in 1..K : Nr[i] >= 0 /\ Nt[i] >= 0
    /\ H.shape = <<Sum(Nr), Sum(Nt)>>

\* prefix[k] of a zero-prefixed cumulative sum: the sum of the first k counts
Prefix(a, k) == Sum(SubSeq(a, 1, k))

\* H[prefixNr[k]:prefixNr[k+1], prefixNt[l]:prefixNt[l+1]], entry by entry
ExpectedBlock(k, l) ==
    [shape |-> <<Nr[k + 1], Nt[l + 1]>>,
     e |-> [i \in 1..Nr[k + 1] |->
              [j \in 1..Nt[l + 1] |-> Entry(H, Prefix(Nr, k) + i, Prefix(Nt, l) + j)]]]

\* The number of places of block (k, l) that hold the entry x
Occurrences(x, k, l) ==
    LET b == getChannel(Chan, k, l).ret
    IN  Cardinality({p \in (1..b.shape[1]) \X (1..b.shape[2]) : b.e[p[1]][p[2]] = x})

RECURSIVE SumOver(_, _, _)
SumOver(x, S, n) ==
    IF S = {} THEN n
    ELSE LET p == CHOOSE q \in S : TRUE
         IN  SumOver(x, S \ {p}, n + Occurrences(x, p[1], p[2]))

\* C1: on a channel model of K users whose H has shape (sum(Nr), sum(Nt)),
\* getChannel(k, l) for k, l in 0..K-1 returns exactly the entries of H in rows
\* [prefixNr[k], prefixNr[k+1]) and columns [prefixNt[l], prefixNt[l+1]), of shape
\* Nr[k] x Nt[l]; and over all (k, l) every entry of H lies in exactly one block,
\* once. (getChannel changes no field: the tiling is evaluated on each channel
\* model as the call that stored it leaves it, the returned block after each
\* getChannel call.)
C1_BlocksTileH ==
    ValidChannel =>
      IF last.op = "getChannel"
      THEN (last.k \in Users /\ last.l \in Users)
             => (last.exc = "none" /\ last.ret = ExpectedBlock(last.k, last.l))
      ELSE \A i \in 1..H.shape[1], j \in 1..H.shape[2] :
             SumOver(Entry(H, i, j), Users \X Users, 0) = 1

\* C1 witness: scenario A in small, Nr = [1, 2], Nt = [1, 2]: getChannel(1, 0)
\* returned the rows [1, 3) and the column [0, 1) of H, a 2 x 1 block
C1_Witness ==
    /\ ValidChannel /\ Nr = <<1, 2>> /\ Nt = <<1, 2>>
    /\ last.op = "getChannel" /\ last.k = 1 /\ last.l = 0 /\ last.exc = "none"
    /\ last.ret.shape = <<2, 1>>
    /\ last.ret.e = <<<<Entry(H, 2, 1)>>, <<Entry(H, 3, 1)>>>>

\* The arguments init_from_channel_matrix rejects
Inconsistent(m, aNr, aNt, aK) ==
    \/ m.shape # <<Sum(aNr), Sum(aNt)>>
    \/ Len(aNr) # Len(aNt)
    \/ Len(aNt) # aK

\* The calls of init_from_channel_matrix with inconsistent arguments
RejectedInjections ==
    {a \in UserArrays \X UserArrays \X InjectKArgs \X {0, 1} :
       Inconsistent(Mat(Sum(a[1]) + a[4], Sum(a[2]), InjectSeed), a[1], a[2], a[3])}

\* C2: on every channel model the program can hold (the fresh one, and each
\* one as the call that stored it leaves it), a call of
\* init_from_channel_matrix with inconsistent arguments (H of the wrong shape,
\* len(Nr) # len(Nt), or len(Nt) # K) raises and leaves H, Nr, Nt, K as they
\* were.
C2_RejectedInitKeepsChannel ==
    last.op # "getChannel" =>
      \A a \in RejectedInjections :
        LET r == init_from_channel_matrix(
                   Chan, Mat(Sum(a[1]) + a[4], Sum(a[2]), InjectSeed), a[1], a[2], a[3])
        IN  r.exc # "none" /\ r.ch = Chan

\* C2 witness: a call of init_from_channel_matrix raised on a channel model
\* that holds a matrix for two users
C2_Witness ==
    /\ last.op = "init_from_channel_matrix" /\ last.exc = "ValueError"
    /\ ValidChannel /\ K = 2 /\ H.shape = <<Sum(Nr), Sum(Nt)>>

\* C3: in every state reached by init_from_channel_matrix and randomize calls
\* (the object as constructed aside), len(Nr) = len(Nt) = K and H has shape
\* (sum(Nr), sum(Nt)).
C3_ChannelInvariant ==
    \/ Chan = NewChan
    \/ /\ Len(Nr) = K
       /\ Len(Nt) = K
       /\ H.shape = <<Sum(Nr), Sum(Nt)>>

\* C4: randomize replaces Nr, Nt, K and H together: a call that raises (the
\* random matrix could not be drawn) leaves all four as they were.
C4_RandomizeAtomic ==
    [][(last'.op = "randomize" /\ last'.exc # "none")
         => UNCHANGED <<H, Nr, Nt, K>>]_vars

\* C5: getChannel(k, l) with k or l outside 0..K-1 raises an index error and
\* returns no matrix.
C5_OutOfRangeRaises ==
    (last.op = "getChannel" /\ ~(last.k \in Users /\ last.l \in Users))
      => last.exc = "IndexError"

\* The solver after the step being taken
SolverNext ==
    [F |-> F', W |-> W', C |-> C', Ns |-> Ns',
     ch |-> [H |-> H', Nr |-> Nr', Nt |-> Nt', K |-> K']]

C6_AllThreeRan ==
    last.op = "step" /\ last.exc = "none"
    /\ last.trace = <<"updateC", "updateF", "updateW">>

\* The solver is configured: streams per user below the receive antennas, and
\* precoders of shape Nt[k] x Ns[k]
Configured ==
    /\ ValidChannel
    /\ ~Ns.isInt /\ Len(Ns.v) = K
    /\ \A k \in 1..K : Ns.v[k] >= 1 /\ Ns.v[k] < Nr[k]
    /\ Len(F) = K
    /\ \A k \in 1..K : F[k] = <<Nt[k], Ns.v[k]>>

C8_LengthsMatchK ==
    /\ F # <<>> => Len(F) = K
    /\ C # <<>> => Len(C) = K
    /\ W # <<>> => Len(W) = K
    /\ ~Ns.isInt => Len(Ns.v) = K

\* C9: step(), updateC(), updateF() or updateW() on a solver whose precoders
\* or whose channel model are not initialised raises and changes none of F, C,
\* W.
C9_UninitialisedRaises ==
    [][(last'.op \in {"step", "updateC", "updateF", "updateW"}
          /\ (F = <<>> \/ Chan = NewChan))
         => (last'.exc # "none" /\ UNCHANGED <<F, C, W>>)]_vars

\* C10: an update that raises leaves the field it owns as it was: C after
\* updateC, F after updateF, W after updateW.
C10_FailedUpdateKeepsField ==
    [][/\ (last'.op = "updateC" /\ last'.exc # "none") => C' = C
       /\ (last'.op = "updateF" /\ last'.exc # "none") => F' = F
       /\ (last'.op = "updateW" /\ last'.exc # "none") => W' = W]_vars

\* C11: getCost, updateC, updateF, updateW, step and randomizeF leave H, Nr,
\* Nt and K of the channel model as they were, whether they return or raise;
\* the channel model changes only in randomizeH and init_from_channel_matrix.
C11_ChannelFrame ==
    [][/\ last'.op \in {"getCost", "updateC", "updateF", "updateW", "step",
                        "randomizeF"} => UNCHANGED <<H, Nr, Nt, K>>
       /\ ~(UNCHANGED <<H, Nr, Nt, K>>)
            => last'.op \in {"randomizeH", "init_from_channel_matrix"}]_vars

\* C11 witness: updateC raised on a two-user channel and the channel is the
\* drawn one still
C11_Witness ==
    /\ last.op = "updateC" /\ last.exc # "none"
    /\ K = 2 /\ H = Mat(Sum(Nr), Sum(Nt), RandomSeed)
    /\ C # <<>>

\* C12: a randomizeF(Nt, Ns, K) call whose per-user Ns sequence has not K
\* elements raises, and F and Ns are afterwards what they were before.
C12_MismatchedStreamsRejected ==
    [][\A aNt \in SolverScalars, aNs \in SolverStreams, aK \in InjectKArgs :
         LET r == randomizeF(Solver, aNt, aNs, aK)
         IN  (/\ ~aNs.isInt /\ Len(aNs.v) # aK
              /\ last'.op = "randomizeF" /\ last'.exc = r.exc
              /\ SolverNext = r.s)
               => (last'.exc # "none" /\ UNCHANGED <<F, Ns>>)]_vars

\* F and C hold matrices for n users (C is only ever computed by updateC, for
\* the users of the channel model of that moment)
SizedFor(n) ==
    /\ Len(F) = n /\ Len(C) = n
    /\ \A k \in 1..n : Len(F[k]) = 2 /\ Len(C[k]) = 2

\* F and C are sized for another channel model than the current one: another
\* number of users, or other antenna counts
Resized ==
    \E n \in 1..MaxK :
        /\ SizedFor(n)
        /\ \/ n # K
           \/ \E k \in 1..n : F[k][1] # Nt[k] \/ C[k][1] # Nr[k]

\* C13: when randomizeH or init_from_channel_matrix has just replaced the
\* channel model by one of other dimensions than the precoders (and bases) in
\* place are sized for, the next updateC, updateF, updateW, step or getCost
\* raises.
C13_ResizedChannelRaises ==
    [][(/\ last.op \in {"randomizeH", "init_from_channel_matrix"}
        /\ last.exc = "none"
        /\ Resized
        /\ last'.op \in {"updateC", "updateF", "updateW", "step", "getCost"})
         => last'.exc # "none"]_vars

\* C14: on a configured solver with a single user, updateC returns without
\* raising, leaving the basis C[0] of shape Nr[0] x (Nr[0] - Ns[0]), and
\* getCost returns 0.
C14_SingleUser ==
    (K = 1 /\ Configured) =>
      /\ last.op = "updateC" =>
           (last.exc = "none" /\ C = <<<<Nr[1], Nr[1] - Ns.v[1]>>>>)
      /\ last.op = "getCost" =>
           (last.exc = "none" /\ last.cost = NoCost)

\* The ordered pairs (k, l) of distinct users of the channel model
InterferingPairs == {<<k, l>> : k \in Users, l \in Users} \ {<<k, k>> : k \in Users}

\* The solver is configured and its bases C are those of the configuration
ValidSolver ==
    /\ Configured
    /\ Len(C) = K
    /\ \A k \in 1..K : C[k] = <<Nr[k], Nr[k] - Ns.v[k]>>

\* C15: getCost changes none of F, C, W, Ns; when it returns, the cost is 0
\* plus one squared Frobenius norm for every ordered pair (k, l) of distinct
\* users, each pair once, hence not negative; in a valid solver state it
\* returns.
C15_CostNonNegative ==
    [][last'.op = "getCost" =>
         /\ UNCHANGED <<F, C, W, Ns>>
         /\ ValidSolver => last'.exc = "none"
         /\ last'.exc = "none" =>
              /\ last'.cost.sign \in {"zero", "nonneg"}
              /\ {last'.cost.terms[i] : i \in 1..Len(last'.cost.terms)}
                   = InterferingPairs
              /\ Len(last'.cost.terms) = Cardinality(InterferingPairs)]_vars

\* C15 witness: getCost returned on a valid two-user solver, having added the
\* terms of (0, 1) and (1, 0)
C15_Witness ==
    /\ last.op = "getCost" /\ last.exc = "none"
    /\ K = 2 /\ ValidSolver
    /\ last.cost = [sign |-> "nonneg", terms |-> <<<<0, 1>>, <<1, 0>>>>]

\* The sum of component c of the update calls in log
RECURSIVE SumArgs(_, _)
SumArgs(log, c) ==
    IF log = <<>> THEN 0 ELSE log[1][c] + SumArgs(Tail(log), c)

\* C16: a Result that received the update calls in its log has num_updates =
\* the number of calls and, by type: SUMTYPE, value = the sum of the values;
\* RATIOTYPE, value and total = the sums of the values and of the totals and
\* get_result() = value / total; STRINGTYPE and FLOATTYPE, value = the last
\* value.
C16_UpdateFollowsType ==
    \A i \in 1..Len(results) :
        LET r == results[i]
            log == updates[i]
        IN  /\ r.num_updates = Len(log)
            /\ r.type = SUMTYPE => r.value = SumArgs(log, 1) /\ r.total = 0
            /\ r.type = RATIOTYPE =>
                 /\ r.value = SumArgs(log, 1)
                 /\ r.total = SumArgs(log, 2)
                 /\ log # <<>> =>
                      get_result(r) = [exc |-> "none",
                                       val |-> <<"ratio", r.value, r.total>>]
            /\ (r.type \in {STRINGTYPE, FLOATTYPE} /\ log # <<>>) =>
                 r.value = log[Len(log)][1]

\* The Result r after receiving the update calls in log, one after the other
RECURSIVE Replay(_, _)
Replay(r, log) ==
    IF log = <<>> THEN r
    ELSE Replay(update(r, log[1][1], log[1][2]).r, Tail(log))

\* C17: a.merge(b) on two Results: with equal names and equal type SUMTYPE or
\* RATIOTYPE it returns, a has b's num_updates, value and total added, which
\* is a after receiving b's update calls itself, and b is as before; with
\* different types, different names or type STRINGTYPE it raises
\* AssertionError and a and b are as before.
C17_MergeAdds ==
    [][(last'.op = "merge" /\ last'.k # last'.l) =>
         LET a == results[last'.k]
             b == results[last'.l]
         IN  /\ results'[last'.l] = b
             /\ (a.name = b.name /\ a.type = b.type
                 /\ a.type \in {SUMTYPE, RATIOTYPE}) =>
                  /\ last'.exc = "none"
                  /\ results'[last'.k] =
                       [a EXCEPT !.num_updates = a.num_updates + b.num_updates,
                                 !.value = a.value + b.value,
                                 !.total = a.total + b.total]
                  /\ results'[last'.k] = Replay(a, updates[last'.l])
             /\ (a.name # b.name \/ a.type # b.type \/ a.type = STRINGTYPE) =>
                  /\ last'.exc = "AssertionError"
                  /\ results'[last'.k] = a]_vars

\* C17 witness: two ratio Results of one name, each updated once with 1 of 2,
\* were merged: the first holds 2 of 4 in 2 updates
C17_Witness ==
    /\ last.op = "merge" /\ last.exc = "none" /\ last.k = 1 /\ last.l = 2
    /\ results[1] = [name |-> "x", type |-> RATIOTYPE, value |-> 2, total |-> 4,
                     num_updates |-> 2]
    /\ results[2] = [name |-> "x", type |-> RATIOTYPE, value |-> 1, total |-> 2,
                     num_updates |-> 1]

HeapNext == [results |-> results', lists |-> lists', sims |-> sims']

\* C18: merge_all_results(other) on a non-empty self, other holding every
\* name of self: under every name of self the last Result becomes its merge
\* with the last Result of that name in other, the Results before it and the
\* number of Results stay, and other holds what it held. add_result leaves
\* under the name the one new Result, append_result the former ones and the
\* new one, and len() is the number of names.
C18_MergeAllResults ==
    [][LET s == last'.k
           o == last'.l
           name == last'.val[1]
       IN  /\ (/\ last'.op = "merge_all_results" /\ s # o
               /\ Keys(sims[s]) # {}
               /\ Keys(sims[s]) \subseteq Keys(sims[o])) =>
                 /\ last'.exc = "none"
                 /\ Stored(HeapNext, sims'[o]) = Stored(Heap, sims[o])
                 /\ \A n \in ResultNames :
                      LET mine == Stored(Heap, sims[s])[n]
                          theirs == Stored(Heap, sims[o])[n]
                          now == Stored(HeapNext, sims'[s])[n]
                      IN  /\ Len(now) = Len(mine)
                          /\ \A i \in 1..(Len(mine) - 1) : now[i] = mine[i]
                          /\ mine # <<>> =>
                               now[Len(mine)] =
                                 merge(mine[Len(mine)], theirs[Len(theirs)]).r
           /\ last'.op = "add_result" =>
                /\ Len(Stored(HeapNext, sims'[s])[name]) = 1
                /\ Stored(HeapNext, sims'[s])[name][1] = results'[Len(results')]
           /\ last'.op = "append_result" =>
                Stored(HeapNext, sims'[s])[name] =
                  Append(Stored(Heap, sims[s])[name], results'[Len(results')])
           /\ last'.op = "__len__" =>
                last'.val = <<Cardinality({n \in ResultNames :
                                             Stored(Heap, sims[s])[n] # <<>>})>>]_vars

\* C20: set_unpack_parameter(name, unpack_bool) on a parameter that exists
\* and is iterable returns, with name among the unpacked parameters when
\* unpack_bool is True and not among them when it is False; on a name that is
\* no parameter or whose value is not iterable it raises ValueError and the
\* unpacked parameters are as before.
C20_SetUnpackParameter ==
    [][last'.op = "set_unpack_parameter" =>
         LET name == last'.val[1]
             unpack_bool == last'.val[2]
         IN  IF name \in DOMAIN params.parameters /\ ~params.parameters[name].isInt
             THEN /\ last'.exc = "none"
                  /\ unpack_bool => name \in params'.unpacked
                  /\ ~unpack_bool => name \notin params'.unpacked
             ELSE /\ last'.exc = "ValueError"
                  /\ params'.unpacked = params.unpacked]_vars

\* What a SimulationResults holds after n runs were merged into it
MergedRuns(n) ==
    [name \in ResultNames |->
       IF name = "x"
       THEN <<[name |-> "x", type |-> SUMTYPE, value |-> n, total |-> 0,
               num_updates |-> n]>>
       ELSE <<>>]

\* C19: in simulate(), the number of _run_simulation calls made for a
\* parameter combination never exceeds rep_max; when the combination is
\* recorded it is rep_max, or less with _keep_going having returned False, it
\* is the value appended to runned_reps, and the SimulationResults appended
\* to results holds the merged results of all these calls.
C19_RepetitionsBounded ==
    [][/\ runner'.pc = "while" => runner'.calls <= runner'.rep_max
       /\ (runner.pc = "while" /\ runner'.pc = "for") =>
            /\ runner.calls = runner.rep_max \/ last'.val = <<FALSE>>
            /\ runner'.runned_reps = Append(runner.runned_reps, runner.calls)
            /\ runner'.results = Append(runner.results, MergedRuns(runner.calls))]_vars

\* The values of a list
Range(s) == {s[i] : i \in 1..Len(s)}

\* The combinations of the unpacked parameters: one of its values for each
Combinations(p) ==
    {c \in [p.unpacked -> UNION {Range(p.parameters[n].v) : n \in p.unpacked}] :
       \A n \in p.unpacked : c[n] \in Range(p.parameters[n].v)}

\* The length of the longest unpacked list
MaxLen(p) ==
    LET ls == {Len(p.parameters[n].v) : n \in p.unpacked}
    IN  IF ls = {} THEN 0 ELSE CHOOSE m \in ls : \A x \in ls : x <= m

\* The choices of one position in the list of every unpacked parameter
Positions(p) ==
    {c \in [p.unpacked -> 1..MaxLen(p)] :
       \A n \in p.unpacked : c[n] <= Len(p.parameters[n].v)}

\* C21: get_unpacked_params_list() returns, for every reachable parameter
\* set, a list of parameter sets that each carry one value for every unpacked
\* parameter and the unchanged value of every other parameter; no combination
\* of the Cartesian product is missing, there are as many elements as
\* combinations, and the length of the list is what
\* get_num_unpacked_variations() returns.
C21_UnpackedParamsList ==
    last.op = "get_unpacked_params_list" =>
        LET keys == last.val[1]
            list == last.val[2]
        IN  /\ last.exc = "none"
            /\ \A i \in 1..Len(list) :
                 /\ DOMAIN list[i] = DOMAIN params.parameters
                 /\ \A n \in DOMAIN params.parameters :
                      IF n \in params.unpacked
                      THEN /\ list[i][n].isInt
                           /\ list[i][n].v[1] \in Range(params.parameters[n].v)
                      ELSE list[i][n] = params.parameters[n]
            /\ \A c \in Combinations(params) :
                 \E i \in 1..Len(list) :
                    \A n \in params.unpacked : list[i][n] = Scalar(c[n])
            /\ Len(list) = Cardinality(Positions(params))
            /\ get_num_unpacked_variations(params, keys) =
                 [exc |-> "none", ret |-> Len(list)]

\* The positions, counted from 0 and from position i on, of the elements of
\* list that have the fixed value for every parameter of fixed
RECURSIVE Matching(_, _, _)
Matching(list, i, fixed) ==
    IF i > Len(list) THEN <<>>
    ELSE (IF \A n \in DOMAIN fixed : list[i][n] = Scalar(fixed[n])
          THEN <<i - 1>> ELSE <<>>) \o Matching(list, i + 1, fixed)

\* C23: get_pack_indexes(fixed_params_dict) fails an assertion when zero or
\* more than one unpacked parameter is left unfixed; given a value for every
\* unpacked parameter but one, it returns exactly the positions in
\* get_unpacked_params_list() of the elements that have the fixed value for
\* every fixed parameter, in the order in which the varying parameter takes
\* its values.
C23_PackIndexes ==
    last.op = "get_pack_indexes" =>
        LET keys == last.val[1]
            fixed_params_dict == last.val[2]
            indexes == last.val[3]
            fixed == [n \in params.unpacked \cap DOMAIN fixed_params_dict |->
                        fixed_params_dict[n]]
        IN  IF Cardinality(params.unpacked \ DOMAIN fixed_params_dict) # 1
            THEN last.exc = "AssertionError"
            ELSE /\ last.exc = "none"
                 /\ indexes =
                      Matching(get_unpacked_params_list(params, keys).list, 1, fixed)

\* The largest of the counts passed in the first i progress calls, and the
\* number of characters written by them
RECURSIVE LargestCount(_)
LargestCount(i) ==
    IF i = 1 THEN stdout[1].count
    ELSE IF stdout[i].count > LargestCount(i - 1) THEN stdout[i].count
    ELSE LargestCount(i - 1)
RECURSIVE CharsWritten(_)
CharsWritten(i) == IF i = 0 THEN 0 ELSE stdout[i].chars + CharsWritten(i - 1)

\* floor(percent / 2) of a count clamped to finalcount
HalfPercentBlocks(finalcount, count) ==
    ((100 * (IF count < finalcount THEN count ELSE finalcount)) \div finalcount)
        \div 2

\* C22: for a ProgressbarText with finalcount > 0, after every progress call
\* the number of progress characters written so far is the number of
\* half-percent blocks, at most 50, of the largest count passed so far clamped
\* to finalcount; the call wrote only the blocks not written before, none if
\* its count was smaller, and the stored blockcount never decreased.
C22_BlocksWritten ==
    bar.finalcount > 0 =>
        /\ \A i \in 1..Len(stdout) :
             LET now == HalfPercentBlocks(bar.finalcount, LargestCount(i))
                 before == IF i = 1 THEN 0
                           ELSE HalfPercentBlocks(bar.finalcount, LargestCount(i - 1))
             IN  /\ CharsWritten(i) = now
                 /\ now <= 50
                 /\ stdout[i].chars = now - before
                 /\ (i > 1 /\ stdout[i].count < LargestCount(i - 1)) =>
                       stdout[i].chars = 0
                 /\ stdout[i].blockcount = now
                 /\ i > 1 => stdout[i - 1].blockcount <= stdout[i].blockcount
        /\ bar.blockcount = CharsWritten(Len(stdout))

\* The calls of the doctest: finalcount 100 and progress(20), (40), (50),
\* (100) wrote 10, 10, 5 and 25 characters
C22_Witness ==
    /\ bar.finalcount = 100
    /\ Len(stdout) = 4
    /\ [i \in 1..4 |-> stdout[i].count] = <<20, 40, 50, 100>>
    /\ [i \in 1..4 |-> stdout[i].chars] = <<10, 10, 5, 25>>

====
